---------------------------- MODULE Spec2Model ----------------------------
(***************************************************************************)
(* Budgeted multi-hop subgraph expansion (src/multi_hop_search.py) and     *)
(* hybrid score fusion (src/embedding_search.py) of PRAGUVA.                *)
(*                                                                         *)
(* Node ids are the integers 1..NumNodes (NoId stands for a missing/empty  *)
(* id), labels are sets of strings, embeddings are integer vectors.  A     *)
(* cosine similarity is kept as the exact pair (num, v_norm) it is         *)
(* computed from, and two similarities are compared exactly; the common    *)
(* positive factor q_norm is left out of the comparison.                   *)
(***************************************************************************)
EXTENDS Integers, Sequences, FiniteSets, TLC

\* ------------------------------------------------------------------ bounds
NumNodes == 6
MaxSeeds == 2
MaxCalls == 2
MaxHopNodes == 4
MaxTop == 2
MaxFuseNodes == 3
MaxTopK == 2
MaxThreads == 2
MaxDrivers == 2
MaxCallers == 2

\* ------------------------------------------------------- program constants
NoId == 0
Infinity == 1000000000
MaxNodesDefault == 1000
MaxRelsDefault == 4000
TopPerLabelDefault == 5
NoThread == 0

Nodes == 1..NumNodes

VARIABLES
    \* the graph held by the graph engine
    labels,          \* node id -> set of labels
    emb,             \* node id -> stored embedding vector (<<>>: none stored)
    edges,           \* set of relationships [id, start, end]
    failing,         \* node ids whose one-hop fetch raises
    descending,      \* TRUE: the engine lists neighbours by descending id
    \* the arguments of two_hop_via_python
    seed_nodes, query_embedding,
    \* MultiHopDriver instance attributes
    result_nodes, result_edges,
    \* locals of two_hop_via_python
    pc, seed_index, best_cost, dq, node_map, edge_map,
    \* what the last one_hop_subgraph call was given and returned
    hop,
    \* history: the calls made so far
    calls, first_result, cost_log,
    \* history: the ids whose one-hop fetch was issued for the current seed
    expanded,
    \* hybrid_search: inputs and returned rows
    fusion,
    \* LLMServer: the worker threads, self.lock, self.driver, the driver held
    \* by self.mh_driver, the closed drivers, the graph calls made so far and
    \* the number of accepted connections
    thr, lock, driver, mh_driver, closed, graph_calls, accepted,
    \* callers sharing one MultiHopDriver, and whether they hold a common lock
    callers, external_lock

graphVars == <<labels, emb, edges, failing, descending>>
callVars == <<seed_nodes, query_embedding>>
travVars == <<result_nodes, result_edges, pc, seed_index, best_cost, dq,
              node_map, edge_map, calls, first_result, cost_log, expanded>>
srvVars == <<thr, lock, driver, mh_driver, closed, graph_calls, accepted>>
shareVars == <<callers, external_lock>>
vars == <<graphVars, callVars, travVars, hop, fusion, srvVars, shareVars>>

\* no server is running and nobody shares the instance
ServerIdle ==
    /\ thr = <<>>
    /\ lock = NoThread
    /\ driver = 0
    /\ mh_driver = 0
    /\ closed = {}
    /\ graph_calls = {}
    /\ accepted = 0
ShareIdle ==
    /\ callers = <<>>
    /\ external_lock = FALSE

\* ----------------------------------------------------------------- helpers
Min(a, b) == IF a <= b THEN a ELSE b
Max(a, b) == IF a >= b THEN a ELSE b
Range(s) == {s[i] : i \in 1..Len(s)}
Take(s, n) == CHOOSE r \in {SubSeq(t, 1, Min(Len(t), Max(0, n))) : t \in {s}} : TRUE
Ids(s) == {s[i].id : i \in 1..Len(s)}
SelectSeqBy(s, keep) == SelectSeq(s, LAMBDA x : x.id \in keep)

\* Optional[List[float]]: None, or a vector (the empty list is not None)
None == [given |-> FALSE, vec |-> <<>>]
Some(v) == [given |-> TRUE, vec |-> v]

\* An argument that is costly to compute is bound as a value before it is
\* passed on (CHOOSE r \in {F(a) : a \in {e}} : TRUE is F(e)), so that it is
\* evaluated once.
\* the elements of a set of records, ordered by their id
RECURSIVE SeqById(_)
SeqById(S) ==
    IF S = {} THEN <<>>
    ELSE CHOOSE r \in UNION {{<<x>> \o SeqById(T) : T \in {S \ {x}}} :
                              x \in {y \in S : \A z \in S : y.id <= z.id}} : TRUE

\* a sequence without the later occurrences of an id (apoc.coll.toSet)
RECURSIVE ToSetFrom(_, _)
ToSetFrom(acc, s) ==
    IF s = <<>> THEN acc
    ELSE CHOOSE r \in {ToSetFrom(a, t) :
                        a \in {IF Head(s).id \in Ids(acc) THEN acc ELSE Append(acc, Head(s))},
                        t \in {Tail(s)}} : TRUE
ToSet(s) == CHOOSE r \in {ToSetFrom(<<>>, t) : t \in {s}} : TRUE

Reverse(s) == [i \in 1..Len(s) |-> s[Len(s) + 1 - i]]

RECURSIVE Flatten(_)
Flatten(ss) ==
    IF ss = <<>> THEN <<>>
    ELSE CHOOSE r \in {Head(ss) \o Flatten(t) : t \in {Tail(ss)}} : TRUE

\* ------------------------------------------------------- cosine similarity
\* cosine() of one_hop_subgraph: -inf for a missing vector, else
\* num / ((sqrt(v_norm) or 1.0) * q_norm) over the first min(len) entries.
RECURSIVE Dot(_, _, _)
Dot(v, w, m) == IF m = 0 THEN 0 ELSE Dot(v, w, m - 1) + v[m] * w[m]
OrOne(x) == IF x = 0 THEN 1 ELSE x
CosineOver(vec, q, m) == [inf |-> FALSE, num |-> Dot(vec, q, m), vn |-> OrOne(Dot(vec, vec, m))]
Cosine(vec, q) ==
    IF vec = <<>> THEN [inf |-> TRUE, num |-> 0, vn |-> 1]
    ELSE CosineOver(vec, q, Min(Len(vec), Len(q)))

SignedSquare(x) == IF x >= 0 THEN x * x ELSE 0 - (x * x)

\* a.num/sqrt(a.vn) > b.num/sqrt(b.vn), with -inf below every number
ScoreGreater(a, b) ==
    IF a.inf THEN FALSE
    ELSE IF b.inf THEN TRUE
    ELSE SignedSquare(a.num) * b.vn > SignedSquare(b.num) * a.vn

\* bucket.sort(key=score, reverse=True): stable, descending
\* x goes behind every element whose score is not below its own
InsertAt(sorted, x, pos) ==
    SubSeq(sorted, 1, pos) \o <<x>> \o SubSeq(sorted, pos + 1, Len(sorted))
InsertByScore(sorted, x, score) ==
    InsertAt(sorted, x, Cardinality({i \in 1..Len(sorted) :
                                       ~ScoreGreater(score[x.id], score[sorted[i].id])}))

RECURSIVE SortFrom(_, _, _)
SortFrom(sorted, rest, score) ==
    IF rest = <<>> THEN sorted
    ELSE CHOOSE r \in {SortFrom(a, t, score) :
                        a \in {InsertByScore(sorted, Head(rest), score)},
                        t \in {Tail(rest)}} : TRUE
SortByScoreDesc(bucket, score) == SortFrom(<<>>, bucket, score)

\* ------------------------------------------------- the one-hop neighbourhood
\* {id: elementId(n), labels: labels(n), props: properties(n)} as the engine
\* returns it; rev 1 marks a copy read by a fetch (a seed's copy has rev 0)
NodeRecord(n) == [id |-> n, labels |-> labels[n], props |-> [emb |-> emb[n], rev |-> 1]]

Neighbours(n) == {e.end : e \in {x \in edges : x.start = n}}
                 \cup {e.start : e \in {x \in edges : x.end = n}}

\* apoc.path.subgraphAll(seed, {maxLevel: 1, bfs: true}): the seed, then its
\* neighbours; and every relationship between two of these nodes
EngineOrder(nb) == IF descending THEN Reverse(nb) ELSE nb
SubgraphAllNodes(n) ==
    CHOOSE r \in {<<NodeRecord(n)>> \o EngineOrder(SeqById(T)) :
                    T \in {{NodeRecord(m) : m \in Neighbours(n) \ {n}}}} : TRUE

RelsAmong(ns) ==
    CHOOSE r \in {SeqById(T) : T \in {{e \in edges : e.start \in ns /\ e.end \in ns}}} : TRUE
SubgraphAllRels(n) == RelsAmong(Neighbours(n) \cup {n})

\* MATCH (seed) ... RETURN nodes, relationships, for the seeds that exist
FetchMatched(seeds, max_nodes, max_rels) ==
    [ok |-> TRUE,
     nodes |-> Take(ToSet(Flatten([i \in 1..Len(seeds) |-> SubgraphAllNodes(seeds[i])])),
                    max_nodes),
     rels |-> Take(ToSet(Flatten([i \in 1..Len(seeds) |-> SubgraphAllRels(seeds[i])])),
                   max_rels)]

\* The Cypher query of one_hop_subgraph.  ok = FALSE: session.run raised.
FetchNeighborhood(eids, max_nodes, max_rels) ==
    IF \E i \in 1..Len(eids) : eids[i] \in failing
    THEN [ok |-> FALSE, nodes |-> <<>>, rels |-> <<>>]
    ELSE FetchMatched(SelectSeq(eids, LAMBDA x : x \in DOMAIN labels), max_nodes, max_rels)

\* scores[nid] = cosine(vec) for every node of the fetch
Scores(nodes, q) ==
    [nid \in Ids(nodes) |->
        LET n == CHOOSE x \in Range(nodes) : x.id = nid
        IN Cosine(n.props.emb, q)]

\* label_buckets[lbl], sorted, cut to the first max(0, top_per_label)
Bucket(nodes, lbl) == SelectSeq(nodes, LAMBDA n : n.id # NoId /\ lbl \in n.labels)
BucketTop(nodes, q, top_per_label, lbl) ==
    Take(SortByScoreDesc(Bucket(nodes, lbl), Scores(nodes, q)), Max(0, top_per_label))

AllLabels(nodes) == UNION {nodes[i].labels : i \in 1..Len(nodes)}

\* always_keep_ids is forgotten
KeepIdsUnprotected(nodes, q, top_per_label, always_keep_ids) ==
    UNION {Ids(BucketTop(nodes, q, top_per_label, lbl)) : lbl \in AllLabels(nodes)}

\* the buckets are not cut
KeepIdsUncut(nodes, q, top_per_label, always_keep_ids) ==
    (Ids(nodes) \ {NoId}) \cup Range(always_keep_ids)

\* keep_ids: the union over the buckets, plus always_keep_ids
KeepIds(nodes, q, top_per_label, always_keep_ids) ==
    UNION {Ids(BucketTop(nodes, q, top_per_label, lbl)) : lbl \in AllLabels(nodes)}
    \cup Range(always_keep_ids)

\* rels = [r for r in rels if r.start in kept and r.end in kept]
PruneRels(rels, kept) ==
    SelectSeq(rels, LAMBDA r : r.start \in kept /\ r.end \in kept)

\* nodes = [n for n in nodes if n.id in keep_ids]
PruneNodes(nodes, keep_ids) == SelectSeqBy(nodes, keep_ids)

\* lines 98-142: the result of a fetch, pruned when a query vector is given
Pruned(fetched, rels, kept) ==
    [ok |-> TRUE, fetched |-> fetched, nodes |-> kept,
     rels |-> PruneRels(rels, Ids(kept) \ {NoId}), raised |-> FALSE]

PostFilter(f, q, top_per_label, always_keep_ids) ==
    IF ~f.ok
    THEN [ok |-> FALSE, fetched |-> <<>>, nodes |-> <<>>, rels |-> <<>>, raised |-> FALSE]
    ELSE IF ~q.given
    THEN [ok |-> TRUE, fetched |-> f.nodes, nodes |-> f.nodes, rels |-> f.rels,
          raised |-> FALSE]
    ELSE Pruned(f.nodes, f.rels,
                PruneNodes(f.nodes, KeepIds(f.nodes, q.vec, top_per_label, always_keep_ids)))

\* the except clause re-raises
OneHopSubgraphRaising(eids, max_nodes, max_rels, q, top_per_label, always_keep_ids) ==
    IF eids = <<>>
    THEN [ok |-> TRUE, fetched |-> <<>>, nodes |-> <<>>, rels |-> <<>>, raised |-> FALSE]
    ELSE IF ~FetchNeighborhood(eids, max_nodes, max_rels).ok
    THEN [ok |-> FALSE, fetched |-> <<>>, nodes |-> <<>>, rels |-> <<>>, raised |-> TRUE]
    ELSE PostFilter(FetchNeighborhood(eids, max_nodes, max_rels), q, top_per_label,
                    always_keep_ids)

\* one_hop_subgraph: what it returns (nodes, rels), with the raw fetch it was
\* computed from; raised = TRUE would be an exception leaving the function
OneHopSubgraph(eids, max_nodes, max_rels, q, top_per_label, always_keep_ids) ==
    IF eids = <<>>
    THEN [ok |-> TRUE, fetched |-> <<>>, nodes |-> <<>>, rels |-> <<>>, raised |-> FALSE]
    ELSE PostFilter(FetchNeighborhood(eids, max_nodes, max_rels), q, top_per_label,
                    always_keep_ids)

\* --------------------------------------------------------- the policy hooks
\* one more hop is allowed
HopBudgetForThree(lbls) == 3

HopBudgetFor(lbls) == 2

\* every step is charged
TransitionCostFlat(prev_labels, next_labels) == 1

TransitionCost(prev_labels, next_labels) ==
    IF "Topic" \in prev_labels /\ "Topic" \in next_labels THEN 0 ELSE 1

\* ------------------------------------------------------------ _dedupe_merge
\* node_map and edge_map are dicts: kept as the sequence of their values in
\* insertion order, one value per id
\* last writer wins: a later copy replaces the stored one
RECURSIVE MergeIntoOverwriting(_, _)
MergeIntoOverwriting(map, items) ==
    IF items = <<>> THEN map
    ELSE CHOOSE r \in {MergeIntoOverwriting(a, t) :
                        a \in {IF Head(items).id = NoId THEN map
                               ELSE IF Head(items).id \in Ids(map)
                               THEN [i \in 1..Len(map) |->
                                       IF map[i].id = Head(items).id THEN Head(items)
                                       ELSE map[i]]
                               ELSE Append(map, Head(items))},
                        t \in {Tail(items)}} : TRUE

RECURSIVE MergeInto(_, _)
MergeInto(map, items) ==
    IF items = <<>> THEN map
    ELSE CHOOSE r \in {MergeInto(a, t) :
                        a \in {IF Head(items).id # NoId /\ Head(items).id \notin Ids(map)
                               THEN Append(map, Head(items))
                               ELSE map},
                        t \in {Tail(items)}} : TRUE

\* a call without relationships merges nothing
DedupeMergeSkipsEmpty(nm, em, nodes, rels) ==
    IF rels = <<>> THEN [node_map |-> nm, edge_map |-> em]
    ELSE [node_map |-> MergeInto(nm, nodes), edge_map |-> MergeInto(em, rels)]

DedupeMergeRelsOnly(nm, em, nodes, rels) ==
    [node_map |-> nm, edge_map |-> MergeInto(em, rels)]

DedupeMerge(nm, em, nodes, rels) ==
    [node_map |-> MergeInto(nm, nodes), edge_map |-> MergeInto(em, rels)]

\* ------------------------------------------------------- two_hop_via_python
\* the cost map of the previous traversal is kept
SeedBestCostStale(seed_id) == (seed_id :> 0) @@ best_cost

\* best_cost = {seed_id: 0}
SeedBestCost(seed_id) == (seed_id :> 0)

\* best_cost.get(nb_id, 0)
BestCostGetZero(bc, nb_id) == IF nb_id \in DOMAIN bc THEN bc[nb_id] ELSE 0

\* best_cost.get(nb_id, 10**9)
BestCostGet(bc, nb_id) == IF nb_id \in DOMAIN bc THEN bc[nb_id] ELSE Infinity

\* a neighbour that uses up the budget is left out
WithinBudgetStrict(new_cost, budget) == new_cost < budget

\* new_cost <= budget
WithinBudget(new_cost, budget) == new_cost <= budget

\* the cheaper item takes the place of the older item of its node
RelaxOneReplacing(p, nb, current_labels, cost_so_far, budget) ==
    LET step_cost == TransitionCost(current_labels, nb.labels)
        new_cost == cost_so_far + step_cost
        item == [id |-> nb.id, labels |-> nb.labels, cost |-> new_cost]
        others == SelectSeq(p.dq, LAMBDA it : it.id # nb.id)
    IN IF nb.id = NoId \/ ~WithinBudget(new_cost, budget) THEN p
       ELSE IF new_cost < BestCostGet(p.bc, nb.id)
       THEN [allowed |-> p.allowed \cup {nb.id},
             bc |-> (nb.id :> new_cost) @@ p.bc,
             dq |-> IF step_cost = 0 THEN <<item>> \o others ELSE Append(others, item)]
       ELSE [p EXCEPT !.allowed = p.allowed \cup {nb.id}]

\* a neighbour reached at its known cost is queued again, unless it is queued
RelaxOneNonStrict(p, nb, current_labels, cost_so_far, budget) ==
    LET step_cost == TransitionCost(current_labels, nb.labels)
        new_cost == cost_so_far + step_cost
        item == [id |-> nb.id, labels |-> nb.labels, cost |-> new_cost]
    IN IF nb.id = NoId \/ ~WithinBudget(new_cost, budget) THEN p
       ELSE IF new_cost < BestCostGet(p.bc, nb.id)
               \/ (new_cost = BestCostGet(p.bc, nb.id) /\ item \notin Range(p.dq))
       THEN [allowed |-> p.allowed \cup {nb.id},
             bc |-> (nb.id :> new_cost) @@ p.bc,
             dq |-> IF step_cost = 0 THEN <<item>> \o p.dq ELSE Append(p.dq, item)]
       ELSE [p EXCEPT !.allowed = p.allowed \cup {nb.id}]

\* an improved neighbour always goes to the back of the queue
RelaxOneAlwaysBack(p, nb, current_labels, cost_so_far, budget) ==
    LET step_cost == TransitionCost(current_labels, nb.labels)
        new_cost == cost_so_far + step_cost
        item == [id |-> nb.id, labels |-> nb.labels, cost |-> new_cost]
    IN IF nb.id = NoId \/ ~WithinBudget(new_cost, budget) THEN p
       ELSE IF new_cost < BestCostGet(p.bc, nb.id)
       THEN [allowed |-> p.allowed \cup {nb.id},
             bc |-> (nb.id :> new_cost) @@ p.bc,
             dq |-> Append(p.dq, item)]
       ELSE [p EXCEPT !.allowed = p.allowed \cup {nb.id}]

\* one pass of the for-loop over nbors (lines 209-226)
RelaxOne(p, nb, current_labels, cost_so_far, budget) ==
    LET step_cost == TransitionCost(current_labels, nb.labels)
        new_cost == cost_so_far + step_cost
        item == [id |-> nb.id, labels |-> nb.labels, cost |-> new_cost]
    IN IF nb.id = NoId \/ ~WithinBudget(new_cost, budget) THEN p
       ELSE IF new_cost < BestCostGet(p.bc, nb.id)
       THEN [allowed |-> p.allowed \cup {nb.id},
             bc |-> (nb.id :> new_cost) @@ p.bc,
             dq |-> IF step_cost = 0 THEN <<item>> \o p.dq ELSE Append(p.dq, item)]
       ELSE [p EXCEPT !.allowed = p.allowed \cup {nb.id}]

\* the for-loop over nbors: allowed_ids, best_cost and the deque after it
RECURSIVE RelaxFrom(_, _, _, _, _)
RelaxFrom(p, nbors, current_labels, cost_so_far, budget) ==
    IF nbors = <<>> THEN p
    ELSE CHOOSE r \in {RelaxFrom(a, t, current_labels, cost_so_far, budget) :
                        a \in {RelaxOne(p, Head(nbors), current_labels, cost_so_far, budget)},
                        t \in {Tail(nbors)}} : TRUE
Relax(nbors, current_labels, cost_so_far, budget, bc0, dq0) ==
    RelaxFrom([allowed |-> {}, bc |-> bc0, dq |-> dq0], nbors, current_labels,
              cost_so_far, budget)

\* filtered_nodes, filtered_rels of one frontier step
FilteredNodes(nbors, allowed_ids) == SelectSeqBy(nbors, allowed_ids)
FilteredRels(rels, filtered_ids) ==
    SelectSeq(rels, LAMBDA r : r.start \in filtered_ids /\ r.end \in filtered_ids)

\* lines 229-233: merge what is within budget, if anything is
MergeFiltered(nm, em, filtered_nodes, rels) ==
    DedupeMerge(nm, em, filtered_nodes, FilteredRels(rels, Ids(filtered_nodes)))
MergeAllowed(nm, em, nbors, rels, allowed_ids) ==
    IF allowed_ids # {}
    THEN MergeFiltered(nm, em, FilteredNodes(nbors, allowed_ids), rels)
    ELSE [node_map |-> nm, edge_map |-> em]

\* lines 187-233 for one seed, from the state the seed starts in to an empty
\* queue: the accumulator when the while-loop is left
RECURSIVE Drain(_, _, _, _, _)
Drain(bc, q, nm, em, budget) ==
    IF q = <<>> THEN [node_map |-> nm, edge_map |-> em]
    ELSE IF Head(q).cost >= budget
    THEN CHOOSE r \in {Drain(bc, t, nm, em, budget) : t \in {Tail(q)}} : TRUE
    ELSE CHOOSE r \in
           UNION {UNION {{Drain(x.bc, x.dq, m.node_map, m.edge_map, budget) :
                            m \in {MergeAllowed(nm, em, h.nodes, h.rels, x.allowed)}} :
                         x \in {Relax(h.nodes, Head(q).labels, Head(q).cost, budget,
                                      bc, Tail(q))}} :
                  h \in {OneHopSubgraph(<<Head(q).id>>, MaxNodesDefault, MaxRelsDefault,
                                        query_embedding, TopPerLabelDefault,
                                        <<Head(q).id>>)}} : TRUE

\* two_hop_via_python([seed]): lines 165-185, then the while-loop
ExpandAlone(seed) ==
    IF seed.id = NoId THEN [node_map |-> <<>>, edge_map |-> <<>>]
    ELSE CHOOSE r \in
           {Drain(SeedBestCost(seed.id),
                  <<[id |-> seed.id, labels |-> seed.labels, cost |-> 0]>>,
                  m.node_map, m.edge_map, HopBudgetFor(seed.labels)) :
              m \in {DedupeMerge(<<>>, <<>>,
                                 <<[id |-> seed.id, labels |-> seed.labels,
                                    props |-> seed.props]>>, <<>>)}} : TRUE

CurrentSeed == seed_nodes[seed_index]
Budget == HopBudgetFor(CurrentSeed.labels)
NoHop == [called |-> FALSE, eids |-> <<>>, keep |-> <<>>, top |-> 0, q |-> None,
          ok |-> TRUE, fetched |-> <<>>, nodes |-> <<>>, rels |-> <<>>, raised |-> FALSE]
HopRecord(eids, keep, top, q, r) ==
    [called |-> TRUE, eids |-> eids, keep |-> keep, top |-> top, q |-> q, ok |-> r.ok,
     fetched |-> r.fetched, nodes |-> r.nodes, rels |-> r.rels, raised |-> r.raised]
IdSets(ns, es) == [nodes |-> Ids(ns), edges |-> Ids(es)]

\* lines 161-166: reset the instance attributes; no seeds: return at once
Call ==
    /\ pc \in {"idle", "done"}
    /\ calls < MaxCalls
    /\ result_nodes' = <<>>
    /\ result_edges' = <<>>
    /\ cost_log' = <<>>
    /\ IF seed_nodes = <<>>
       THEN /\ pc' = "done"
            /\ calls' = calls + 1
            /\ first_result' = IF calls = 0 THEN IdSets(<<>>, <<>>) ELSE first_result
            /\ UNCHANGED <<node_map, edge_map, seed_index>>
       ELSE /\ pc' = "for"
            /\ node_map' = <<>>
            /\ edge_map' = <<>>
            /\ seed_index' = 1
            /\ UNCHANGED <<calls, first_result>>
    /\ UNCHANGED expanded
    /\ UNCHANGED <<srvVars, shareVars, graphVars, callVars, best_cost, dq, hop, fusion>>

\* lines 168-172: a seed without an id is skipped
SkipSeed ==
    /\ pc = "for"
    /\ seed_index <= Len(seed_nodes)
    /\ CurrentSeed.id = NoId
    /\ seed_index' = seed_index + 1
    /\ UNCHANGED expanded
    /\ UNCHANGED <<srvVars, shareVars, graphVars, callVars, result_nodes, result_edges, pc, best_cost, dq,
                   node_map, edge_map, calls, first_result, cost_log, hop, fusion>>

\* lines 174-185: start the traversal of the next seed and merge the seed
BeginSeed ==
    /\ pc = "for"
    /\ seed_index <= Len(seed_nodes)
    /\ CurrentSeed.id # NoId
    /\ best_cost' = SeedBestCost(CurrentSeed.id)
    /\ dq' = <<[id |-> CurrentSeed.id, labels |-> CurrentSeed.labels, cost |-> 0]>>
    /\ \E m \in {DedupeMerge(node_map, edge_map,
                    <<[id |-> CurrentSeed.id, labels |-> CurrentSeed.labels,
                       props |-> CurrentSeed.props]>>, <<>>)} :
          /\ node_map' = m.node_map
          /\ edge_map' = m.edge_map
    /\ pc' = "while"
    /\ expanded' = <<>>
    /\ UNCHANGED <<srvVars, shareVars, graphVars, callVars, result_nodes, result_edges, seed_index,
                   calls, first_result, cost_log, hop, fusion>>

\* lines 188-191: pop an item that has used up the budget
Skip ==
    /\ pc = "while"
    /\ dq # <<>>
    /\ Head(dq).cost >= Budget
    /\ dq' = Tail(dq)
    /\ UNCHANGED expanded
    /\ UNCHANGED <<srvVars, shareVars, graphVars, callVars, result_nodes, result_edges, pc, seed_index,
                   best_cost, node_map, edge_map, calls, first_result, cost_log,
                   hop, fusion>>

\* lines 188-233: pop an item, fetch its neighbourhood, relax, merge
Expand ==
    /\ pc = "while"
    /\ dq # <<>>
    /\ Head(dq).cost < Budget
    /\ \E cur \in {Head(dq)} :
       \E r \in {OneHopSubgraph(<<cur.id>>, MaxNodesDefault, MaxRelsDefault,
                                query_embedding, TopPerLabelDefault, <<cur.id>>)} :
       \E x \in {Relax(r.nodes, cur.labels, cur.cost, Budget, best_cost, Tail(dq))} :
       \E m \in {MergeAllowed(node_map, edge_map, r.nodes, r.rels, x.allowed)} :
          /\ hop' = HopRecord(<<cur.id>>, <<cur.id>>, TopPerLabelDefault,
                              query_embedding, r)
          /\ expanded' = Append(expanded, cur.id)
          /\ IF r.raised
             THEN /\ pc' = "raised"
                  /\ UNCHANGED <<best_cost, dq, node_map, edge_map>>
             ELSE /\ pc' = pc
                  /\ best_cost' = x.bc
                  /\ dq' = x.dq
                  /\ node_map' = m.node_map
                  /\ edge_map' = m.edge_map
    /\ UNCHANGED <<srvVars, shareVars, graphVars, callVars, result_nodes, result_edges, seed_index,
                   calls, first_result, cost_log, fusion>>

\* line 187: the queue of this seed is empty; on to the next seed
EndSeed ==
    /\ pc = "while"
    /\ dq = <<>>
    /\ cost_log' = Append(cost_log, [seed |-> CurrentSeed.id, budget |-> Budget,
                                      best_cost |-> best_cost])
    /\ seed_index' = seed_index + 1
    /\ pc' = "for"
    /\ UNCHANGED expanded
    /\ UNCHANGED <<srvVars, shareVars, graphVars, callVars, result_nodes, result_edges, best_cost, dq,
                   node_map, edge_map, calls, first_result, hop, fusion>>

\* lines 236-238: store the result in the instance and return it
Return ==
    /\ pc = "for"
    /\ seed_index > Len(seed_nodes)
    /\ result_nodes' = node_map
    /\ result_edges' = edge_map
    /\ pc' = "done"
    /\ calls' = calls + 1
    /\ first_result' = IF calls = 0 THEN IdSets(node_map, edge_map) ELSE first_result
    /\ UNCHANGED expanded
    /\ UNCHANGED <<srvVars, shareVars, graphVars, callVars, seed_index, best_cost, dq, node_map, edge_map,
                   cost_log, hop, fusion>>

\* ------------------------------------------------------------- the graphs
EdgeId(i, j) == i * (NumNodes + 1) + j
Edge(i, j) == [id |-> EdgeId(i, j), start |-> i, end |-> j]

\* a path 1 -> 2 -> ... -> k+1, and relationships m -> 1 from the nodes 3..s
PathEdges(k) == {Edge(i, i + 1) : i \in 1..k}
StarEdges(s) == {Edge(m, 1) : m \in 3..s}
Graphs == {PathEdges(k) \cup StarEdges(s) : k \in 0..(NumNodes - 1), s \in {2, 3, NumNodes}}

\* the nodes 1..t carry Topic, the others Professor
TopicPrefix(t) == [n \in Nodes |-> IF n <= t THEN {"Topic"} ELSE {"Professor"}]

\* a seed as the caller builds it from an entry-search row (rev 0: the copy
\* read by the entry search)
SeedOf(n) ==
    IF n = NoId THEN [id |-> NoId, labels |-> {}, props |-> [emb |-> <<>>, rev |-> 0]]
    ELSE [id |-> n, labels |-> labels[n], props |-> [emb |-> emb[n], rev |-> 0]]
\* up to MaxSeeds seeds among the nodes 1 and 3, the first of them possibly
\* a row without an id
IdLists(k) == UNION {[1..j -> {1, 3}] : j \in 0..k}
SeedLists == IdLists(MaxSeeds) \cup {<<NoId>> \o l : l \in IdLists(MaxSeeds - 1)}

NoFusion == [called |-> FALSE, text |-> <<>>, graph |-> <<>>, alpha |-> 0, top_k |-> 0,
             fails |-> "no", rows |-> <<>>, raised |-> FALSE]

Init ==
    /\ labels \in {TopicPrefix(t) : t \in 0..NumNodes}
    /\ emb = [n \in Nodes |-> <<n, 1>>]
    /\ edges \in Graphs
    /\ \E p \in {<<{}, FALSE>>, <<{}, TRUE>>, <<{2}, FALSE>>} :
          /\ failing = p[1]
          /\ descending = p[2]
    /\ \E ids \in SeedLists : seed_nodes = [i \in DOMAIN ids |-> SeedOf(ids[i])]
    /\ query_embedding \in {None, Some(<<0, 1>>)}
    /\ result_nodes = <<>>
    /\ result_edges = <<>>
    /\ pc = "idle"
    /\ seed_index = 0
    /\ best_cost = <<>>
    /\ dq = <<>>
    /\ node_map = <<>>
    /\ edge_map = <<>>
    /\ hop = NoHop
    /\ calls = 0
    /\ first_result = IdSets(<<>>, <<>>)
    /\ cost_log = <<>>
    /\ expanded = <<>>
    /\ fusion = NoFusion
    /\ ServerIdle
    /\ ShareIdle

Next == Call \/ SkipSeed \/ BeginSeed \/ Skip \/ Expand \/ EndSeed \/ Return

Spec == Init /\ [][Next]_vars

\* ------------------------------------------- one_hop_subgraph called directly
\* a star around node 1 with one more relationship 2 -> 3; every node carries
\* Topic, Professor or both; similarities all different, or tied with one
\* node that stores no vector
HopNodes == 1..MaxHopNodes
LabelSets == {{"Topic"}, {"Professor"}, {"Topic", "Professor"}}
HopEmbeddings == {[n \in HopNodes |-> <<n, 1>>],
                  [n \in HopNodes |-> IF n = 2 THEN <<>> ELSE <<1, 1>>]}

InitHop ==
    /\ labels \in [HopNodes -> LabelSets]
    /\ emb \in HopEmbeddings
    /\ edges = {Edge(m, 1) : m \in 2..MaxHopNodes} \cup {Edge(2, 3)}
    /\ failing \in {{}, {1}}
    /\ descending \in BOOLEAN
    /\ seed_nodes = <<>>
    /\ query_embedding = None
    /\ result_nodes = <<>>
    /\ result_edges = <<>>
    /\ pc = "direct"
    /\ seed_index = 0
    /\ best_cost = <<>>
    /\ dq = <<>>
    /\ node_map = <<>>
    /\ edge_map = <<>>
    /\ hop = NoHop
    /\ calls = 0
    /\ first_result = IdSets(<<>>, <<>>)
    /\ cost_log = <<>>
    /\ expanded = <<>>
    /\ fusion = NoFusion
    /\ ServerIdle
    /\ ShareIdle

\* one call of one_hop_subgraph by a caller other than two_hop_via_python
OneHopCall ==
    /\ pc = "direct"
    /\ ~hop.called
    /\ \E eids \in {<<>>, <<1>>},
          q \in {None, Some(<<0, 1>>), Some(<<1, 0>>)},
          top \in 0..MaxTop,
          keep \in {<<>>, <<1>>, <<MaxHopNodes>>, <<2, 3>>},
          max_nodes \in {MaxNodesDefault, 2} :
          hop' = HopRecord(eids, keep, top, q,
                           OneHopSubgraph(eids, max_nodes, MaxRelsDefault, q, top, keep))
    /\ UNCHANGED <<srvVars, shareVars, graphVars, callVars, travVars, fusion>>

NextHop == OneHopCall

SpecHop == InitHop /\ [][NextHop]_vars

\* direct calls, and the calls two_hop_via_python makes
SpecHopTrav == (Init \/ InitHop) /\ [][Next \/ NextHop]_vars

\* ------------------------------------------- graphs with two ways to a node
\* the relationships 1-2, 1-3, 2-4, 3-4 (a diamond) and 4-5, any of them
\* absent; the nodes 1..5 carry Topic or Professor in every combination
DiamondEdges == {Edge(1, 2), Edge(1, 3), Edge(2, 4), Edge(3, 4), Edge(4, 5)}
DiamondLabels ==
    {[n \in Nodes |-> IF n \in T THEN {"Topic"} ELSE {"Professor"}] : T \in SUBSET (1..5)}
DiamondSeeds == {<<1>>, <<5, 1>>, <<NoId, 1>>}

InitDiamond ==
    /\ labels \in DiamondLabels
    /\ emb = [n \in Nodes |-> <<n, 1>>]
    /\ edges \in SUBSET DiamondEdges
    /\ failing = {}
    /\ descending \in BOOLEAN
    /\ \E ids \in DiamondSeeds : seed_nodes = [i \in DOMAIN ids |-> SeedOf(ids[i])]
    /\ query_embedding \in {None, Some(<<0, 1>>)}
    /\ result_nodes = <<>>
    /\ result_edges = <<>>
    /\ pc = "idle"
    /\ seed_index = 0
    /\ best_cost = <<>>
    /\ dq = <<>>
    /\ node_map = <<>>
    /\ edge_map = <<>>
    /\ hop = NoHop
    /\ calls = 0
    /\ first_result = IdSets(<<>>, <<>>)
    /\ cost_log = <<>>
    /\ expanded = <<>>
    /\ fusion = NoFusion
    /\ ServerIdle
    /\ ShareIdle

SpecDiamond == InitDiamond /\ [][Next]_vars

\* the diamond with or without its tail, and the path 1-3-4-5; no query
\* embedding
CycleGraphs == {DiamondEdges, DiamondEdges \ {Edge(4, 5)},
                {Edge(1, 3), Edge(3, 4), Edge(4, 5)}}
InitCycle ==
    /\ InitDiamond
    /\ edges \in CycleGraphs
    /\ query_embedding = None
    /\ Len(seed_nodes) = 1 \/ seed_nodes[1].id = NoId

\* two_hop_via_python is sequential code: the step it is at is taken
SpecDiamondLive == InitCycle /\ [][Next]_vars /\ WF_vars(Next)

\* ============================================================ the hop claims
Pruning == hop.called /\ hop.ok /\ hop.q.given
Protected == Range(hop.keep)
Carrying(lbl) == {n \in Range(hop.nodes) : lbl \in n.labels /\ n.id \notin Protected}
InTopOf(n, lbl) == n \in Range(BucketTop(hop.fetched, hop.q.vec, hop.top, lbl))

C4_ProtectedSurvive ==
    (hop.called /\ hop.ok) =>
        /\ \A n \in Range(hop.fetched) : n.id \in Protected => n \in Range(hop.nodes)
        /\ pc # "direct" => hop.eids[1] \in Ids(hop.nodes)

\* a protected candidate that is in the first top_per_label of no bucket
C4_Witness ==
    /\ Pruning
    /\ Len(hop.nodes) < Len(hop.fetched)
    /\ \E n \in Range(hop.nodes) :
          /\ n.id \in Protected
          /\ \A lbl \in n.labels : ~InTopOf(n, lbl)

\* C22 (pruner tie-break determinism): the kept ids are those kept when the
\* candidates of every bucket are ordered by similarity and, among equal
\* similarities, by node id: they do not depend on the order of the fetch.
C22_PrunerTieBreakById ==
    Pruning =>
        Ids(hop.nodes) =
            Ids(hop.fetched) \cap KeepIds(SeqById(Range(hop.fetched)), hop.q.vec, hop.top,
                                          hop.keep)

\* ------------------------------------------------------------ hybrid_search
\* Scores and alpha are kept in tenths (9 is 0.9), a combined score in
\* hundredths (60 is 0.60).

\* search_k = max(100, top_k * 5)
SearchK(top_k) == Max(100, top_k * 5)

\* CALL db.index.vector.queryNodes(index, $search_k, ...): the candidates of
\* one index, best first, at most search_k of them
RECURSIVE BestFirst(_)
BestFirst(S) ==
    IF S = {} THEN <<>>
    ELSE LET x == CHOOSE y \in S : \A z \in S :
                    y.score > z.score \/ (y.score = z.score /\ y.id <= z.id)
         IN <<x>> \o BestFirst(S \ {x})
QueryNodes(candidates, search_k) == Take(BestFirst(candidates), search_k)

\* the text-only rows are kept, with gScore = coalesce(null, 0.0)
JoinRowsOuter(textResults, graphResults) ==
    [i \in 1..Len(textResults) |->
        [eid |-> textResults[i].id, tScore |-> textResults[i].score,
         gScore |-> IF \E j \in 1..Len(graphResults) : graphResults[j].id = textResults[i].id
                    THEN (CHOOSE g \in Range(graphResults) : g.id = textResults[i].id).score
                    ELSE 0]]

\* UNWIND textResults AS t UNWIND graphResults AS g WITH t, g WHERE t.eid = g.eid
JoinRows(textResults, graphResults) ==
    Flatten([i \in 1..Len(textResults) |->
        Flatten([j \in 1..Len(graphResults) |->
            IF textResults[i].id = graphResults[j].id
            THEN <<[eid |-> textResults[i].id, tScore |-> textResults[i].score,
                    gScore |-> graphResults[j].score]>>
            ELSE <<>>])])

\* the weights are exchanged
CombinedScoreSwapped(alpha, tScore, gScore) == alpha * gScore + (10 - alpha) * tScore

\* ($alpha * tScore + (1 - $alpha) * gScore)
CombinedScore(alpha, tScore, gScore) == alpha * tScore + (10 - alpha) * gScore

\* WHERE NOT 'Topic' IN labels(node) WITH ... combinedScore
ScoredRows(rows, alpha) ==
    [i \in 1..Len(SelectSeq(rows, LAMBDA r : "Topic" \notin labels[r.eid])) |->
        [nodeEid |-> SelectSeq(rows, LAMBDA r : "Topic" \notin labels[r.eid])[i].eid,
         tScore |-> SelectSeq(rows, LAMBDA r : "Topic" \notin labels[r.eid])[i].tScore,
         gScore |-> SelectSeq(rows, LAMBDA r : "Topic" \notin labels[r.eid])[i].gScore,
         combinedScore |->
            CombinedScore(alpha,
                SelectSeq(rows, LAMBDA r : "Topic" \notin labels[r.eid])[i].tScore,
                SelectSeq(rows, LAMBDA r : "Topic" \notin labels[r.eid])[i].gScore)]]

\* the rows are not ordered
OrderedAny(rows) ==
    {[i \in 1..Len(rows) |-> rows[p[i]]] :
        p \in {q \in [1..Len(rows) -> 1..Len(rows)] :
                 \A i, j \in 1..Len(rows) : q[i] = q[j] => i = j}}

\* ORDER BY combinedScore DESC: every order of the rows that is descending
\* (the engine leaves the order of rows with equal keys open)
OrderedDesc(rows) ==
    {[i \in 1..Len(rows) |-> rows[p[i]]] :
        p \in {q \in [1..Len(rows) -> 1..Len(rows)] :
                 /\ \A i, j \in 1..Len(rows) : q[i] = q[j] => i = j
                 /\ \A i, j \in 1..Len(rows) :
                       i < j => rows[q[i]].combinedScore >= rows[q[j]].combinedScore}}

\* the rows hybrid_search may return for the two candidate sets
HybridRows(text, graph, alpha, top_k) ==
    {Take(o, top_k) :
        o \in OrderedDesc(ScoredRows(JoinRows(QueryNodes(text, SearchK(top_k)),
                                              QueryNodes(graph, SearchK(top_k))), alpha))}

FuseNodes == 1..MaxFuseNodes
\* what an index may hold: a set of nodes, scored by one of two tables
TextTables == {[n \in FuseNodes |-> IF n = 1 THEN 9 ELSE 4],
               [n \in FuseNodes |-> IF n = 1 THEN 3 ELSE 8]}
GraphTables == {[n \in FuseNodes |-> IF n = 1 THEN 3 ELSE 8],
                [n \in FuseNodes |-> IF n = 1 THEN 9 ELSE 4]}
Candidates(tables) ==
    {{[id |-> n, score |-> t[n]] : n \in S} : S \in SUBSET FuseNodes, t \in tables}

\* where a call may fail: nowhere, in embedding_model.encode (line 27), in
\* driver.session() or in session.run / result.data() (lines 77-85)
FailurePoints == {"no", "encode", "session", "query"}

\* the except clause lets the error through
OutcomeOfFailureRaising(point) == [rows |-> <<>>, raised |-> TRUE]

\* what a failure at the given point leaves the caller with: encode is
\* outside the try block; except Exception returns [] for the others
OutcomeOfFailure(point) == [rows |-> <<>>, raised |-> point = "encode"]

InitFuse ==
    /\ labels \in {[n \in FuseNodes |-> IF n \in T THEN {"Topic"} ELSE {"Professor"}] :
                     T \in {{}, {1}, {2}}}
    /\ emb = <<>>
    /\ edges = {}
    /\ failing = {}
    /\ descending = FALSE
    /\ seed_nodes = <<>>
    /\ query_embedding = None
    /\ result_nodes = <<>>
    /\ result_edges = <<>>
    /\ pc = "fuse"
    /\ seed_index = 0
    /\ best_cost = <<>>
    /\ dq = <<>>
    /\ node_map = <<>>
    /\ edge_map = <<>>
    /\ hop = NoHop
    /\ calls = 0
    /\ first_result = IdSets(<<>>, <<>>)
    /\ cost_log = <<>>
    /\ expanded = <<>>
    /\ ServerIdle
    /\ ShareIdle
    /\ \E text \in Candidates(TextTables), graph \in Candidates(GraphTables),
          alpha \in {0, 3, 5, 10}, top_k \in 0..MaxTopK, fails \in FailurePoints :
          fusion = [called |-> FALSE, text |-> text, graph |-> graph, alpha |-> alpha,
                    top_k |-> top_k, fails |-> fails, rows |-> <<>>, raised |-> FALSE]

\* lines 76-100: the session runs the query and the rows are returned
HybridSearch ==
    /\ pc = "fuse"
    /\ ~fusion.called
    /\ fusion.fails = "no"
    /\ \E rows \in HybridRows(fusion.text, fusion.graph, fusion.alpha, fusion.top_k) :
          fusion' = [fusion EXCEPT !.called = TRUE, !.rows = rows]
    /\ UNCHANGED <<srvVars, shareVars, graphVars, callVars, travVars, hop>>

\* line 27 or lines 101-103: the encoder, the session or the query raises
HybridSearchFails ==
    /\ pc = "fuse"
    /\ ~fusion.called
    /\ fusion.fails # "no"
    /\ fusion' = [fusion EXCEPT !.called = TRUE,
                                !.rows = OutcomeOfFailure(fusion.fails).rows,
                                !.raised = OutcomeOfFailure(fusion.fails).raised]
    /\ UNCHANGED <<srvVars, shareVars, graphVars, callVars, travVars, hop>>

NextFuse == HybridSearch \/ HybridSearchFails

SpecFuse == InitFuse /\ [][NextFuse]_vars

\* ========================================================= the fusion claims
TextIds == {c.id : c \in fusion.text}
GraphIds == {c.id : c \in fusion.graph}
ScoreIn(candidates, id) == (CHOOSE c \in candidates : c.id = id).score

\* C9 (strict intersection): every returned node id occurs in both candidate
\* lists, and with an empty list the result is empty.
C9_StrictIntersection ==
    fusion.called =>
        /\ \A i \in 1..Len(fusion.rows) :
              fusion.rows[i].nodeEid \in TextIds \cap GraphIds
        /\ (fusion.text = {} \/ fusion.graph = {}) => fusion.rows = <<>>

\* a returned row, while each index also found a node the other did not
C9_Witness ==
    /\ fusion.called
    /\ Len(fusion.rows) >= 1
    /\ TextIds \ GraphIds # {}
    /\ GraphIds \ TextIds # {}

\* C10 (fusion formula): the combinedScore of a returned row is
\* alpha*textScore + (1-alpha)*graphScore of its node; and alpha = 0.5 with
\* text {n1: 0.9, n2: 0.4} and graph {n1: 0.3, n3: 0.8} yields {n1: 0.6}.
ExampleInput ==
    /\ fusion.alpha = 5
    /\ fusion.text = {[id |-> 1, score |-> 9], [id |-> 2, score |-> 4]}
    /\ fusion.graph = {[id |-> 1, score |-> 3], [id |-> 3, score |-> 8]}
    /\ fusion.top_k >= 1
    /\ "Topic" \notin labels[1]
    /\ fusion.fails = "no"
C10_FusionFormula ==
    fusion.called =>
        /\ \A i \in 1..Len(fusion.rows) :
              /\ fusion.rows[i].nodeEid \in TextIds \cap GraphIds
              /\ fusion.rows[i].combinedScore =
                    fusion.alpha * ScoreIn(fusion.text, fusion.rows[i].nodeEid)
                    + (10 - fusion.alpha) * ScoreIn(fusion.graph, fusion.rows[i].nodeEid)
        /\ ExampleInput =>
              /\ Len(fusion.rows) = 1
              /\ fusion.rows[1].nodeEid = 1
              /\ fusion.rows[1].combinedScore = 60

C10_Witness ==
    /\ fusion.called
    /\ ExampleInput
    /\ Len(fusion.rows) = 1

\* the nodes hybrid_search may return: in both candidate lists, not Topic
Eligible == {n \in TextIds \cap GraphIds : "Topic" \notin labels[n]}
FusedScore(n) ==
    fusion.alpha * ScoreIn(fusion.text, n) + (10 - fusion.alpha) * ScoreIn(fusion.graph, n)
Returned == {fusion.rows[i].nodeEid : i \in 1..Len(fusion.rows)}

\* C11 (fusion selection): the returned list has at most top_k entries, is in
\* non-increasing order of fused score, holds no Topic node, and no eligible
\* node left out has a strictly higher fused score than a returned one.
C11_FusionSelection ==
    fusion.called =>
        /\ Len(fusion.rows) <= fusion.top_k
        /\ \A i, j \in 1..Len(fusion.rows) :
              i < j => fusion.rows[i].combinedScore >= fusion.rows[j].combinedScore
        /\ \A n \in Returned : "Topic" \notin labels[n]
        /\ \A out \in Eligible \ Returned : \A kept \in Returned :
              FusedScore(out) <= FusedScore(kept)

\* a full list of two rows with different scores, while a Topic node found by
\* both indexes, with a fused score not below theirs, was left out
C11_Witness ==
    /\ fusion.called
    /\ Len(fusion.rows) = 2
    /\ fusion.top_k = 2
    /\ fusion.rows[1].combinedScore > fusion.rows[2].combinedScore
    /\ \E n \in TextIds \cap GraphIds :
          "Topic" \in labels[n] /\ FusedScore(n) >= fusion.rows[1].combinedScore

\* C12 (tie-break determinism): rows with equal fused scores are ordered by
\* node id, and the returned list is the first top_k of the eligible nodes in
\* the order (fused score descending, id ascending).
C12_TieBreakById ==
    (fusion.called /\ fusion.fails = "no") =>
        /\ \A i, j \in 1..Len(fusion.rows) :
              (i < j /\ fusion.rows[i].combinedScore = fusion.rows[j].combinedScore)
                  => fusion.rows[i].nodeEid < fusion.rows[j].nodeEid
        /\ \A out \in Eligible \ Returned : \A kept \in Returned :
              FusedScore(out) = FusedScore(kept) => kept < out

\* C13 (fusion failure): a failing session or query gives the empty list and
\* raises nothing; only the computation of the query embedding raises.
C13_FailureIsEmptyList ==
    fusion.called =>
        /\ fusion.fails \in {"session", "query"} => (fusion.rows = <<>> /\ ~fusion.raised)
        /\ fusion.raised => fusion.fails = "encode"

\* a failed query over candidate lists that have an eligible node in common
C13_Witness ==
    /\ fusion.called
    /\ fusion.fails = "query"
    /\ fusion.top_k >= 1
    /\ Eligible # {}
    /\ fusion.rows = <<>>

\* ======================================================== the traversal claims
InCall == pc \in {"for", "while"}

\* the cost maps of this call: of the finished seeds, and of the running one
CostMaps ==
    {[budget |-> cost_log[i].budget, best_cost |-> cost_log[i].best_cost] :
        i \in 1..Len(cost_log)}
    \cup (IF pc = "while" THEN {[budget |-> Budget, best_cost |-> best_cost]} ELSE {})

Costed(id) == \E c \in CostMaps : id \in DOMAIN c.best_cost /\ c.best_cost[id] <= c.budget

\* C1 (budget monotonicity): at every point of two_hop_via_python and in its
\* returned result, every node id of the accumulator has a best_cost that is
\* defined and <= budget in the traversal of at least one seed of the call.
C1_BudgetMonotonicity ==
    /\ InCall => \A id \in Ids(node_map) : Costed(id)
    /\ pc = "done" => \A id \in Ids(result_nodes) : Costed(id)

\* a returned node that is no seed and was reached at the full budget
C1_Witness ==
    /\ pc = "done"
    /\ \E n \in Ids(result_nodes) :
          /\ n \notin Ids(seed_nodes)
          /\ \E c \in CostMaps : n \in DOMAIN c.best_cost /\ c.best_cost[n] = c.budget
    /\ \E n \in DOMAIN labels : n \notin Ids(result_nodes)

\* C2 (no dangling edges): every edge of the accumulator, and of the returned
\* result, has its start id and its end id among the node ids of the same.
Closed(ns, es) == \A i \in 1..Len(es) : es[i].start \in Ids(ns) /\ es[i].end \in Ids(ns)
C2_NoDanglingEdges ==
    /\ InCall => Closed(node_map, edge_map)
    /\ Closed(result_nodes, result_edges)

\* a result with edges, of two seeds, after a fetch failed and after a fetch
\* whose pruning dropped a node that a fetched relationship ends at
C2_Witness ==
    /\ pc = "done"
    /\ Len(result_edges) >= 2
    /\ Len(seed_nodes) = 2
    /\ \/ failing # {}
       \/ \E e \in edges : e.id \notin Ids(result_edges) /\ e.end \in Ids(result_nodes)

\* C5 (idempotence): a second call with the same seeds and query vector on the
\* same instance returns the node ids and edge ids the first call returned.
C5_Idempotent ==
    (pc = "done" /\ calls >= 2) =>
        IdSets(result_nodes, result_edges) = first_result

C5_Witness ==
    /\ pc = "done"
    /\ calls = 2
    /\ Len(result_nodes) >= 4
    /\ Len(result_edges) >= 3
    /\ query_embedding.given

\* C6 (fetch-failure isolation): a step whose fetch fails merges nothing and
\* enqueues nothing, leaves the other queue items and the seed loop where they
\* are, and nothing is raised.
FailingPop ==
    /\ pc = "while"
    /\ dq # <<>>
    /\ Head(dq).cost < Budget
    /\ Head(dq).id \in failing
C6_FailureIsolated ==
    [][FailingPop =>
          /\ pc' = "while"
          /\ dq' = Tail(dq)
          /\ UNCHANGED <<node_map, edge_map, best_cost, seed_index, seed_nodes>>]_vars

\* after a failed fetch: earlier merges are there, items and seeds remain
C6_Witness ==
    /\ pc = "while"
    /\ ~hop.ok
    /\ Len(node_map) >= 3
    /\ Len(dq) >= 1
    /\ seed_index < Len(seed_nodes)

\* C7 (first-writer-wins): within one call no step changes or removes the
\* value stored under an id of node_map or edge_map; the maps only grow.
IsPrefix(s, t) == Len(s) <= Len(t) /\ \A i \in 1..Len(s) : t[i] = s[i]
UniqueIds(s) == \A i, j \in 1..Len(s) : s[i].id = s[j].id => i = j
C7_FirstWriterWins ==
    [][(InCall /\ pc' \in {"for", "while", "done"}) =>
          /\ IsPrefix(node_map, node_map') /\ UniqueIds(node_map')
          /\ IsPrefix(edge_map, edge_map') /\ UniqueIds(edge_map')]_vars

\* a fetch of a later seed's traversal returned another copy of a stored node
C7_Witness ==
    /\ pc = "while"
    /\ seed_index = 2
    /\ \E i \in 1..Len(node_map) : \E j \in 1..Len(hop.nodes) :
          /\ hop.nodes[j].id = node_map[i].id
          /\ hop.nodes[j] # node_map[i]

\* C8 (free same-category chain): without a failing fetch and without pruning
\* loss, in the traversal of a Topic seed every node joined to the seed by a
\* chain of Topic nodes has best_cost 0, every other node next to the seed or
\* to such a node has best_cost 1, and the returned result holds these nodes
\* and the relationships that join them.
RECURSIVE TopicChain(_)
TopicChain(S) ==
    IF \E n \in UNION {Neighbours(m) : m \in S} : n \notin S /\ "Topic" \in labels[n]
    THEN TopicChain(S \cup {n \in UNION {Neighbours(m) : m \in S} : "Topic" \in labels[n]})
    ELSE S
NoPruningLoss ==
    \/ ~query_embedding.given
    \/ \A n \in DOMAIN labels : Cardinality(Neighbours(n) \cup {n}) <= TopPerLabelDefault
ChainHolds(entry, chain) ==
    /\ \A t \in chain : t \in DOMAIN entry.best_cost /\ entry.best_cost[t] = 0
    /\ \A x \in UNION {Neighbours(t) : t \in chain} \ chain :
          x \in DOMAIN entry.best_cost /\ entry.best_cost[x] = 1
    /\ pc = "done" =>
          /\ chain \cup UNION {Neighbours(t) : t \in chain} \subseteq Ids(result_nodes)
          /\ \A e \in edges : (e.start \in chain \/ e.end \in chain)
                                  => e.id \in Ids(result_edges)
NoTopic == \A n \in DOMAIN labels : "Topic" \notin labels[n]
Near(S) == S \cup UNION {Neighbours(n) : n \in S}
SeedIds == Ids(seed_nodes) \ {NoId}
C20_TwoHopBound ==
    /\ [](NoTopic =>
            /\ InCall => Ids(node_map) \subseteq Near(Near(SeedIds))
            /\ Ids(result_nodes) \subseteq Near(Near(SeedIds)))
    /\ [][(NoTopic /\ pc = "while" /\ dq # <<>> /\ Head(dq).cost >= 2) =>
             UNCHANGED <<hop, node_map, edge_map, best_cost>>]_vars

\* a result that holds a node two steps from the seed while the graph has a
\* node three steps from it
C20_Witness ==
    /\ pc = "done"
    /\ NoTopic
    /\ failing = {}
    /\ SeedIds # {}
    /\ Ids(result_nodes) \ Near(SeedIds) # {}
    /\ Near(Near(Near(SeedIds))) \ Near(Near(SeedIds)) # {}
    /\ Ids(result_nodes) = Near(Near(SeedIds))

C23_QueueOrdered ==
    pc = "while" =>
        /\ \A i, j \in 1..Len(dq) : i < j => dq[i].cost <= dq[j].cost
        /\ \A i, j \in 1..Len(dq) : dq[j].cost - dq[i].cost <= 1

\* a zero-cost item was put in front of items of the next cost level
C23_Witness ==
    /\ pc = "while"
    /\ Len(dq) >= 3
    /\ dq[1].cost = 0
    /\ dq[1].id \notin SeedIds
    /\ dq[Len(dq)].cost = 1


\* C24 (termination): on every graph, graphs with cycles of zero-cost
\* Topic-Topic relationships included, and for every seed list, the traversal
\* of each seed reaches an empty queue and two_hop_via_python returns; a pop
\* adds as many items to the queue as there are ids whose best_cost strictly
\* decreased, and every best_cost is an integer in 0..budget.
Improved == {n \in DOMAIN best_cost' : best_cost'[n] < BestCostGet(best_cost, n)}
C24_Terminates ==
    /\ InCall ~> (pc = "done")
    /\ (pc = "while") ~> (pc = "while" /\ dq = <<>>)
    /\ [](pc = "while" => \A n \in DOMAIN best_cost : best_cost[n] \in 0..Budget)
    /\ [][(pc = "while" /\ pc' = "while" /\ dq # <<>>) =>
             Len(dq') - Len(Tail(dq)) = Cardinality(Improved)]_vars
TopicCycle ==
    /\ \A n \in 1..4 : "Topic" \in labels[n]
    /\ {Edge(1, 2), Edge(1, 3), Edge(2, 4), Edge(3, 4)} \subseteq edges
C24_Witness ==
    /\ pc = "done"
    /\ TopicCycle
    /\ 1..4 \subseteq Range(expanded)
    /\ 1..4 \subseteq Ids(result_nodes)


\* C25 as claimed (frontier replacement): at every moment of a seed's
\* traversal the queue holds at most one item per node id, and that item
\* carries the node's current best_cost.
C25_OneItemPerNode ==
    pc = "while" =>
        /\ \A i, j \in 1..Len(dq) : dq[i].id = dq[j].id => i = j
        /\ \A i \in 1..Len(dq) : dq[i].cost = best_cost[dq[i].id]

\* C25, amended: a cheaper item is added and the older item of the node
\* stays in the queue until it is popped.  At every moment the queue holds at
\* most one item per node id that carries the node's current best_cost; every
\* other item of the node carries a higher cost that has used up the budget,
\* and the item with the current cost is in front of it or was already popped
\* and expanded.
Current(i) == dq[i].cost = best_cost[dq[i].id]
C25_CheaperItemAdded ==
    /\ [](pc = "while" =>
            /\ \A i, j \in 1..Len(dq) :
                  (dq[i].id = dq[j].id /\ Current(i) /\ Current(j)) => i = j
            /\ \A i \in 1..Len(dq) :
                  \/ Current(i)
                  \/ /\ dq[i].cost > best_cost[dq[i].id]
                     /\ dq[i].cost >= Budget
                     /\ \/ \E j \in 1..(i - 1) : dq[j].id = dq[i].id /\ Current(j)
                        \/ dq[i].id \in Range(expanded))
    /\ [][(pc = "while" /\ pc' = "while" /\ dq # <<>>) =>
             \E k \in 0..Len(dq') :
                 /\ k + Len(dq) - 1 <= Len(dq')
                 /\ SubSeq(dq', k + 1, k + Len(dq) - 1) = Tail(dq)]_vars
C25_Witness ==
    /\ pc = "while"
    /\ Len(dq) >= 2
    /\ dq[1].id = dq[2].id
    /\ dq[1].cost = 1
    /\ dq[2].cost = 2
    /\ best_cost[dq[1].id] = 1


\* C26 (at most one expansion per node per seed): with budget 2 and step
\* cost 0 for Topic-to-Topic and 1 otherwise, within the traversal of one seed
\* the one-hop fetch is issued at most once for each node id, on every graph
\* and for every order of the fetched neighbours; an item that carries a
\* superseded cost is never expanded: every item that will be expanded
\* carries the current best_cost of its node.
C26_ExpandedOnce ==
    /\ \A i, j \in 1..Len(expanded) : expanded[i] = expanded[j] => i = j
    /\ pc = "while" =>
          \A i \in 1..Len(dq) : dq[i].cost < Budget => dq[i].cost = best_cost[dq[i].id]
C26_Witness ==
    /\ pc = "while"
    /\ dq # <<>>
    /\ Head(dq).id \in Range(expanded)
    /\ Head(dq).cost > best_cost[Head(dq).id]


\* C27 (seed-wise decomposition): the node ids and the relationship ids that
\* two_hop_via_python returns for a seed list are the union of those it
\* returns for each seed alone, hence the same for every order of the seeds;
\* every seed starts from its own cost map and its own queue, whatever the
\* traversal of the seed before left in them.
AloneNodeIds == UNION {Ids(ExpandAlone(seed_nodes[i]).node_map) : i \in 1..Len(seed_nodes)}
AloneEdgeIds == UNION {Ids(ExpandAlone(seed_nodes[i]).edge_map) : i \in 1..Len(seed_nodes)}
C27_SeedwiseUnion ==
    /\ [](pc = "done" =>
            /\ Ids(result_nodes) = AloneNodeIds
            /\ Ids(result_edges) = AloneEdgeIds)
    /\ [][(pc = "for" /\ pc' = "while") =>
             /\ best_cost' = (CurrentSeed.id :> 0)
             /\ Ids(dq') = {CurrentSeed.id}
             /\ Len(dq') = 1]_vars
C27_Witness ==
    /\ pc = "done"
    /\ Len(seed_nodes) = 2
    /\ seed_nodes[1].id = 3
    /\ seed_nodes[2].id = 1
    /\ Ids(ExpandAlone(seed_nodes[1]).node_map) \ Ids(ExpandAlone(seed_nodes[2]).node_map) # {}
    /\ Ids(ExpandAlone(seed_nodes[2]).node_map) \ Ids(ExpandAlone(seed_nodes[1]).node_map) # {}
    /\ Ids(ExpandAlone(seed_nodes[1]).node_map) \cap Ids(ExpandAlone(seed_nodes[2]).node_map) # {}
    /\ Ids(result_nodes) = AloneNodeIds


\* the cheapest cost of a path from seed to every node, each step charged by
\* TransitionCost (Infinity: no path)
RECURSIVE CheapestFrom(_, _)
CheapestFrom(d, k) ==
    IF k = 0 THEN d
    ELSE CHOOSE r \in
           {CheapestFrom(e, k - 1) :
              e \in {[n \in Nodes |->
                        LET via == {d[m] + TransitionCost(labels[m], labels[n]) :
                                      m \in Neighbours(n)} \cup {d[n]}
                        IN CHOOSE c \in via : \A o \in via : c <= o]}} : TRUE
Cheapest(seed) == CheapestFrom([n \in Nodes |-> IF n = seed THEN 0 ELSE Infinity], NumNodes)
CheapestMaps == {[seed |-> sd, budget |-> HopBudgetFor(labels[sd]), cost |-> Cheapest(sd)] :
                   sd \in SeedIds}
Unpruned == pc = "done" /\ ~query_embedding.given /\ failing = {}

\* C28 as claimed (completeness within budget): without a query embedding
\* and with every fetch succeeding, the result contains every node whose
\* cheapest path cost from some seed is <= budget.
C28_AllWithinBudget ==
    Unpruned =>
        \A c \in CheapestMaps : \A n \in Nodes :
            c.cost[n] <= c.budget => n \in Ids(result_nodes)

\* C28, amended: without a query embedding and with every fetch succeeding,
\* the result contains every seed and every node within budget that has a
\* neighbour whose cheapest cost is below the budget and from which the step
\* stays within budget; a node within budget whose cheaper neighbours all
\* have used up the budget is not in the result unless another seed reaches
\* it.
ReachedFrom(c, n) ==
    \/ n = c.seed
    \/ \E m \in Neighbours(n) :
          /\ c.cost[m] < c.budget
          /\ c.cost[m] + TransitionCost(labels[m], labels[n]) <= c.budget
C28_WithinBudgetByExpansion ==
    Unpruned =>
        \A n \in Nodes :
            n \in Ids(result_nodes) <=> \E c \in CheapestMaps : ReachedFrom(c, n)
C28_Witness ==
    /\ Unpruned
    /\ \E c \in CheapestMaps :
          /\ \E n \in Nodes : c.cost[n] = c.budget /\ n \in Ids(result_nodes)
          /\ \E n \in Nodes : c.cost[n] = c.budget /\ n \notin Ids(result_nodes)

\* ================================================================= LLMServer
\* A string is kept as the sequence of its parts; <<>> is the empty string.

\* the graph a two_hop_via_python call returns to process_query: the seeds,
\* or the seeds and what the one-hop fetches added
SeedsOnly == {"seed"}
SeedsAndNeighbours == {"seed", "neighbour"}

\* a worker thread as run() starts it for an accepted connection
NewThread ==
    [pc |-> "recv", kind |-> "none", stuck |-> FALSE, stuck_at |-> 0, entry |-> "none",
     raised_from |-> "none", nodes |-> {}, gen_failed |-> FALSE, answer |-> <<>>,
     response |-> "none", sent |-> 0, took_lock |-> FALSE]

\* the lock is handed out whoever holds it
CanAcquireAlways(holder) == TRUE

\* with self.lock: a threading.Lock is acquired when nobody holds it
CanAcquire(holder) == holder = NoThread

\* a stuck external call gives up after a while and the thread goes on
MayProceedAfterTimeout(th) == TRUE

\* a thread whose external call never returns takes no further step
MayProceed(th) == ~th.stuck

\* the steps of process_query under the lock, and those that wait for an
\* external service (graph engine, embedding model, LLM)
CriticalPcs == {"verify", "reconnect", "labels", "vector", "encode", "hop", "generate",
                "return"}
ExternalCallPcs == {"verify", "labels", "vector", "encode", "hop", "generate"}

\* a graph call as it goes out: through which driver, and whether that
\* driver had been closed
GraphCall(kind, via) == [kind |-> kind, via |-> via, via_closed |-> via \in closed]

\* the failure of the LLM call is returned as the bare message of the error
GenerateNlResponseBare(outcome) ==
    IF outcome.fails
    THEN [raised |-> FALSE, value |-> outcome.message]
    ELSE [raised |-> FALSE, value |-> outcome.text]

\* generate_nl_response_from_graph: (resp.text or "").strip(), or
\* f"GEMINI ERROR: {e}" from the except clause
GenerateNlResponse(outcome) ==
    IF outcome.fails
    THEN [raised |-> FALSE, value |-> <<"GEMINI ERROR: ">> \o outcome.message]
    ELSE [raised |-> FALSE, value |-> outcome.text]

\* what the LLM call may do: answer with a text, with an empty or missing
\* text, or raise an error with or without a message
GenerateOutcomes ==
    {[fails |-> FALSE, text |-> t, message |-> <<>>] : t \in {<<>>, <<"answer">>}}
    \cup {[fails |-> TRUE, text |-> <<>>, message |-> m] : m \in {<<>>, <<"timeout">>}}

\* the exception leaves process_query without leaving the with block
RaiseKeepsLock(th, from) ==
    [th EXCEPT !.pc = "respond", !.raised_from = from, !.answer = <<"Error: ", from>>,
               !.nodes = {}]

\* except Exception as e: return f"Error: {str(e)}"; what the query had
\* retrieved is not part of this answer
Raise(th, from) ==
    [th EXCEPT !.pc = "return", !.raised_from = from, !.answer = <<"Error: ", from>>,
               !.nodes = {}]

InitServer ==
    /\ labels = <<>>
    /\ emb = <<>>
    /\ edges = {}
    /\ failing = {}
    /\ descending = FALSE
    /\ seed_nodes = <<>>
    /\ query_embedding = None
    /\ result_nodes = <<>>
    /\ result_edges = <<>>
    /\ pc = "server"
    /\ seed_index = 0
    /\ best_cost = <<>>
    /\ dq = <<>>
    /\ node_map = <<>>
    /\ edge_map = <<>>
    /\ hop = NoHop
    /\ calls = 0
    /\ first_result = IdSets(<<>>, <<>>)
    /\ cost_log = <<>>
    /\ expanded = <<>>
    /\ fusion = NoFusion
    /\ ServerIdle
    /\ ShareIdle

srvFrame == <<graphVars, callVars, travVars, hop, fusion, shareVars>>

\* run, lines 185-189: accept a connection and start its worker thread
Accept ==
    /\ pc = "server"
    /\ accepted < MaxThreads
    /\ thr' = Append(thr, NewThread)
    /\ accepted' = accepted + 1
    /\ UNCHANGED <<srvFrame, lock, driver, mh_driver, closed, graph_calls>>

\* a connection that sent no bytes is told so
AfterRecvAnswersNoData(th, kind) ==
    IF kind = "query" THEN [th EXCEPT !.kind = kind, !.pc = "lock"]
    ELSE [th EXCEPT !.kind = kind, !.pc = "respond", !.answer = <<"error">>]

\* handle_client, lines 147-159: no bytes: return; a request that json.loads
\* or request.get rejects ("bad"): the except clause; an empty query: the
\* error response; else process_query
AfterRecv(th, kind) ==
    IF kind = "query" THEN [th EXCEPT !.kind = kind, !.pc = "lock"]
    ELSE IF kind = "nodata" THEN [th EXCEPT !.kind = kind, !.pc = "closed"]
    ELSE [th EXCEPT !.kind = kind, !.pc = "respond", !.answer = <<"error">>]

\* handle_client, lines 137-159: read the request
Recv ==
    \E t \in 1..Len(thr) :
        /\ thr[t].pc = "recv"
        /\ \E kind \in {"query", "empty", "bad", "nodata"} :
              thr' = [thr EXCEPT ![t] = AfterRecv(@, kind)]
        /\ UNCHANGED <<srvFrame, lock, driver, mh_driver, closed, graph_calls, accepted>>

\* process_query, line 76: with self.lock
Acquire ==
    \E t \in 1..Len(thr) :
        /\ thr[t].pc = "lock"
        /\ CanAcquire(lock)
        /\ lock' = t
        /\ thr' = [thr EXCEPT ![t].pc = "verify", ![t].took_lock = TRUE]
        /\ UNCHANGED <<srvFrame, driver, mh_driver, closed, graph_calls, accepted>>

\* lines 78-80: self.driver.verify_connectivity()
Verify ==
    \E t \in 1..Len(thr) :
        /\ thr[t].pc = "verify"
        /\ MayProceed(thr[t])
        /\ \E ok \in BOOLEAN :
              /\ ~ok => driver < MaxDrivers
              /\ thr' = [thr EXCEPT ![t].pc = IF ok THEN "labels" ELSE "reconnect"]
        /\ UNCHANGED <<srvFrame, lock, driver, mh_driver, closed, graph_calls, accepted>>

\* lines 81-91: close self.driver and put a new driver in its place
Reconnect ==
    \E t \in 1..Len(thr) :
        /\ thr[t].pc = "reconnect"
        /\ MayProceed(thr[t])
        /\ closed' = closed \cup {driver}
        /\ driver' = driver + 1
        /\ thr' = [thr EXCEPT ![t].pc = "labels"]
        /\ UNCHANGED <<srvFrame, lock, mh_driver, graph_calls, accepted>>

\* search_entry_nodes, lines 69-77: the label discovery, outside any try
EntryLabels ==
    \E t \in 1..Len(thr) :
        /\ thr[t].pc = "labels"
        /\ MayProceed(thr[t])
        /\ graph_calls' = graph_calls \cup {GraphCall("labels", driver)}
        /\ \E ok \in BOOLEAN :
              thr' = [thr EXCEPT ![t] =
                        IF ok THEN [@ EXCEPT !.pc = "vector"]
                        ELSE Raise([@ EXCEPT !.entry = "labels_failed"], "labels")]
        /\ UNCHANGED <<srvFrame, lock, driver, mh_driver, closed, accepted>>

\* search_by_embedding, line 27: encode raises before any graph call
EntryEncodeRaises ==
    \E t \in 1..Len(thr) :
        /\ thr[t].pc = "vector"
        /\ MayProceed(thr[t])
        /\ thr' = [thr EXCEPT ![t] = Raise([@ EXCEPT !.entry = "encode_raised"], "entry_encode")]
        /\ UNCHANGED <<srvFrame, lock, driver, mh_driver, closed, graph_calls, accepted>>

\* search_by_embedding, lines 45-57, and process_query, lines 97-105
EntryVector ==
    \E t \in 1..Len(thr) :
        /\ thr[t].pc = "vector"
        /\ MayProceed(thr[t])
        /\ graph_calls' = graph_calls \cup {GraphCall("vector", driver)}
        /\ \E outcome \in {"query_failed", "no_rows", "rows"} :
              thr' = [thr EXCEPT ![t] =
                        IF outcome = "rows" THEN [@ EXCEPT !.entry = outcome, !.pc = "encode"]
                        ELSE [@ EXCEPT !.entry = outcome, !.pc = "return",
                                       !.answer = <<"No entry nodes found.">>]]
        /\ UNCHANGED <<srvFrame, lock, driver, mh_driver, closed, accepted>>

\* line 109: self.embedding_model.encode(query)
Encode ==
    \E t \in 1..Len(thr) :
        /\ thr[t].pc = "encode"
        /\ MayProceed(thr[t])
        /\ \E ok \in BOOLEAN :
              thr' = [thr EXCEPT ![t] = IF ok THEN [@ EXCEPT !.pc = "hop"] ELSE Raise(@, "encode")]
        /\ UNCHANGED <<srvFrame, lock, driver, mh_driver, closed, graph_calls, accepted>>

\* lines 114-121: self.mh_driver.two_hop_via_python; its one-hop fetches go
\* through the driver the MultiHopDriver was constructed with
MultiHop ==
    \E t \in 1..Len(thr) :
        /\ thr[t].pc = "hop"
        /\ MayProceed(thr[t])
        /\ graph_calls' = graph_calls \cup {GraphCall("fetch", mh_driver)}
        /\ \E nodes \in {SeedsOnly, SeedsAndNeighbours} :
              thr' = [thr EXCEPT ![t].pc = "generate", ![t].nodes = nodes]
        /\ UNCHANGED <<srvFrame, lock, driver, mh_driver, closed, accepted>>

\* line 126: generate_nl_response_from_graph
Generate ==
    \E t \in 1..Len(thr) :
        /\ thr[t].pc = "generate"
        /\ MayProceed(thr[t])
        /\ \E outcome \in GenerateOutcomes :
              thr' = [thr EXCEPT ![t] =
                        IF GenerateNlResponse(outcome).raised
                        THEN Raise([@ EXCEPT !.gen_failed = outcome.fails], "generate")
                        ELSE [@ EXCEPT !.pc = "return", !.gen_failed = outcome.fails,
                                       !.answer = GenerateNlResponse(outcome).value]]
        /\ UNCHANGED <<srvFrame, lock, driver, mh_driver, closed, graph_calls, accepted>>

\* lines 98, 105, 130, 134: the return leaves the with block; the lock is free
ReturnAnswer ==
    \E t \in 1..Len(thr) :
        /\ thr[t].pc = "return"
        /\ MayProceed(thr[t])
        /\ lock' = IF lock = t THEN NoThread ELSE lock
        /\ thr' = [thr EXCEPT ![t].pc = "respond"]
        /\ UNCHANGED <<srvFrame, driver, mh_driver, closed, graph_calls, accepted>>

\* handle_client, lines 161-169: send the response, close the socket
Respond ==
    \E t \in 1..Len(thr) :
        /\ thr[t].pc = "respond"
        /\ thr' = [thr EXCEPT ![t].pc = "closed",
                              ![t].sent = @ + 1,
                              ![t].response = IF thr[t].kind = "query" THEN "answer" ELSE "error"]
        /\ UNCHANGED <<srvFrame, lock, driver, mh_driver, closed, graph_calls, accepted>>

\* an external call that never returns
Stall ==
    \E t \in 1..Len(thr) :
        /\ thr[t].pc \in ExternalCallPcs
        /\ ~thr[t].stuck
        /\ thr' = [thr EXCEPT ![t].stuck = TRUE, ![t].stuck_at = accepted]
        /\ UNCHANGED <<srvFrame, lock, driver, mh_driver, closed, graph_calls, accepted>>

NextServer ==
    \/ Accept \/ Recv \/ Acquire \/ Verify \/ Reconnect \/ EntryLabels
    \/ EntryEncodeRaises \/ EntryVector \/ Encode \/ MultiHop \/ Generate
    \/ ReturnAnswer \/ Respond \/ Stall

SpecServer == InitServer /\ [][NextServer]_vars

\* every external call returns, and a thread that can take a step takes it
ServerSteps ==
    \/ Recv \/ Acquire \/ Verify \/ Reconnect \/ EntryLabels
    \/ EntryEncodeRaises \/ EntryVector \/ Encode \/ MultiHop \/ Generate
    \/ ReturnAnswer \/ Respond
NextReturning == Accept \/ ServerSteps
SpecServerLive == InitServer /\ [][NextReturning]_vars /\ WF_vars(ServerSteps)

\* ========================================================= the server claims
Workers == 1..Len(thr)
InCritical == {t \in Workers : thr[t].pc \in CriticalPcs}

\* C14 (serialized query processing): at most one thread at a time is between
\* the start of the connectivity check and the return of the answer.
C14_Serialized == Cardinality(InCritical) <= 1

\* one query is being answered while another waits for the lock
C14_Witness ==
    \E t, u \in Workers :
        /\ thr[t].pc = "generate"
        /\ lock = t
        /\ thr[u].pc = "lock"

\* C15 (reconnect on detected failure): no graph call, entry search or
\* one-hop fetch, goes through a driver that has been closed.
C15_ReconnectEverywhere == \A c \in graph_calls : ~c.via_closed

\* C17 (stall propagation): while a thread is stuck in an external call inside
\* process_query it holds the lock, no other thread is inside, no query gets
\* answered, and the accept loop can still accept.
Answered(t) == thr[t].kind = "query" /\ thr[t].pc \in {"respond", "closed"}
Stuck == {t \in Workers : thr[t].stuck}
C17_StallPropagates ==
    [][Stuck # {} =>
          /\ \A s \in Stuck : lock = s /\ InCritical = {s}
          /\ lock' = lock
          /\ \A t \in Workers : Answered(t)' => Answered(t)
          /\ accepted < MaxThreads => ENABLED Accept]_vars

\* a connection accepted after the stall whose thread waits for the lock
C17_Witness ==
    \E s \in Stuck : \E t \in Workers :
        /\ t > thr[s].stuck_at
        /\ thr[t].kind = "query"
        /\ thr[t].pc = "lock"

C19_EntrySearchDegrades ==
    \A t \in Workers :
        /\ thr[t].entry \in {"labels_failed", "query_failed"} =>
              (thr[t].raised_from = "none" /\ thr[t].answer = <<"No entry nodes found.">>)
        /\ thr[t].raised_from \in {"labels", "entry_encode"} =>
              thr[t].entry = "encode_raised"

\* C29 (lock release and progress): process_query leaves the lock free on
\* every exit: the return of the answer, the early return "No entry nodes
\* found." and an exception, which is returned as "Error: ..." in an answer;
\* the lock is free whenever no query is in progress; and when every
\* external call returns, every thread that waits for the lock gets its
\* query answered.
Exceptional(t) == thr[t].raised_from # "none"
C29_LockReleased ==
    /\ [](InCritical = {} => lock = NoThread)
    /\ [](\A t \in Workers :
            /\ lock = t => thr[t].pc \in CriticalPcs
            /\ (Exceptional(t) /\ thr[t].pc \in {"respond", "closed"}) =>
                  thr[t].answer = <<"Error: ", thr[t].raised_from>>
            /\ (Exceptional(t) /\ thr[t].pc = "closed") => thr[t].response = "answer")
    /\ [][\A t \in Workers :
            (thr[t].pc \in CriticalPcs /\ thr'[t].pc \notin CriticalPcs) =>
                (lock = t /\ lock' = NoThread /\ thr'[t].pc = "respond")]_vars
    /\ \A t \in 1..MaxThreads :
          (t \in Workers /\ thr[t].pc = "lock") ~>
              (t \in Workers /\ thr[t].pc = "closed" /\ thr[t].took_lock
                 /\ thr[t].response = "answer")

\* a thread waits for the lock while the holder leaves through an exception
C29_Witness ==
    \E s, t \in Workers :
        /\ lock = s
        /\ thr[s].pc = "return"
        /\ Exceptional(s)
        /\ thr[t].pc = "lock"

\* C30 (one response per connection): every accepted connection ends with
\* its socket closed; when request bytes were received exactly one response
\* is sent: an answer when the query was processed, an error when the
\* request is rejected or its query is empty, and then process_query is not
\* called and the lock is not taken; when no bytes were received nothing is
\* sent.
Rejected(t) == thr[t].kind \in {"empty", "bad"}
C30_OneResponse ==
    /\ [](\A t \in Workers :
            /\ thr[t].sent <= 1
            /\ thr[t].pc = "closed" =>
                  /\ thr[t].kind = "nodata" => (thr[t].sent = 0 /\ thr[t].response = "none")
                  /\ thr[t].kind = "query" =>
                        (thr[t].sent = 1 /\ thr[t].response = "answer" /\ thr[t].took_lock)
                  /\ Rejected(t) => (thr[t].sent = 1 /\ thr[t].response = "error")
            /\ thr[t].kind \in {"empty", "bad", "nodata"} =>
                  /\ ~thr[t].took_lock
                  /\ lock # t
                  /\ thr[t].pc \in {"respond", "closed"})
    /\ \A t \in 1..MaxThreads : (t \in Workers) ~> (t \in Workers /\ thr[t].pc = "closed")

\* one connection sent a request that is rejected, another sent nothing
C30_Witness ==
    \E s, t \in Workers :
        /\ thr[s].pc = "closed"
        /\ thr[s].kind = "bad"
        /\ thr[s].response = "error"
        /\ thr[t].pc = "closed"
        /\ thr[t].kind = "nodata"
        /\ thr[t].sent = 0

\* ===================================== one MultiHopDriver shared by callers
\* Each caller runs two_hop_via_python on the same instance; what its own
\* traversal computes is local (node_map, edge_map) and stands here for the
\* lists [c] it would return alone: nothing for a caller without seeds.
OwnNodes(c) == IF callers[c].seeds THEN <<[id |-> c]>> ELSE <<>>
OwnEdges(c) == IF callers[c].seeds THEN <<[id |-> EdgeId(c, c)]>> ELSE <<>>

\* the attribute is left as the last call wrote it
ResetValueStale(old) == old

\* line 161: self.result_nodes, self.result_edges = [], []
ResetValue(old) == <<>>

InitShare ==
    /\ labels = <<>>
    /\ emb = <<>>
    /\ edges = {}
    /\ failing = {}
    /\ descending = FALSE
    /\ seed_nodes = <<>>
    /\ query_embedding = None
    /\ result_nodes = <<>>
    /\ result_edges = <<>>
    /\ pc = "share"
    /\ seed_index = 0
    /\ best_cost = <<>>
    /\ dq = <<>>
    /\ node_map = <<>>
    /\ edge_map = <<>>
    /\ hop = NoHop
    /\ calls = 0
    /\ first_result = IdSets(<<>>, <<>>)
    /\ cost_log = <<>>
    /\ expanded = <<>>
    /\ fusion = NoFusion
    /\ ServerIdle
    /\ external_lock \in BOOLEAN
    /\ callers \in [1..MaxCallers ->
                      {[pc |-> "idle", seeds |-> b, ret_nodes |-> <<>>, ret_edges |-> <<>>] :
                          b \in BOOLEAN}]

shareFrame == <<graphVars, callVars, pc, seed_index, best_cost, dq, node_map, edge_map,
                calls, first_result, cost_log, expanded, hop, fusion, srvVars,
                external_lock>>

\* lines 161-163: enter the call (under the callers' lock, if they have one)
\* and reset the instance attributes
ShareReset ==
    \E c \in DOMAIN callers :
        /\ pc = "share"
        /\ callers[c].pc = "idle"
        /\ external_lock =>
              \A o \in DOMAIN callers \ {c} : callers[o].pc \in {"idle", "returned"}
        /\ result_nodes' = ResetValue(result_nodes)
        /\ result_edges' = ResetValue(result_edges)
        /\ callers' = [callers EXCEPT ![c].pc = IF callers[c].seeds THEN "store_nodes"
                                                ELSE "read_nodes"]
        /\ UNCHANGED shareFrame

\* line 236: self.result_nodes = list(node_map.values())
ShareStoreNodes ==
    \E c \in DOMAIN callers :
        /\ callers[c].pc = "store_nodes"
        /\ result_nodes' = OwnNodes(c)
        /\ callers' = [callers EXCEPT ![c].pc = "store_edges"]
        /\ UNCHANGED <<shareFrame, result_edges>>

\* line 237: self.result_edges = list(edge_map.values())
ShareStoreEdges ==
    \E c \in DOMAIN callers :
        /\ callers[c].pc = "store_edges"
        /\ result_edges' = OwnEdges(c)
        /\ callers' = [callers EXCEPT ![c].pc = "read_nodes"]
        /\ UNCHANGED <<shareFrame, result_nodes>>

\* lines 163 and 238: return self.result_nodes, ... (the first attribute read)
ShareReadNodes ==
    \E c \in DOMAIN callers :
        /\ callers[c].pc = "read_nodes"
        /\ callers' = [callers EXCEPT ![c].pc = "read_edges", ![c].ret_nodes = result_nodes]
        /\ UNCHANGED <<shareFrame, result_nodes, result_edges>>

\* lines 163 and 238: return ..., self.result_edges (the second attribute read)
ShareReadEdges ==
    \E c \in DOMAIN callers :
        /\ callers[c].pc = "read_edges"
        /\ callers' = [callers EXCEPT ![c].pc = "returned", ![c].ret_edges = result_edges]
        /\ UNCHANGED <<shareFrame, result_nodes, result_edges>>

NextShare ==
    ShareReset \/ ShareStoreNodes \/ ShareStoreEdges \/ ShareReadNodes \/ ShareReadEdges

SpecShare == InitShare /\ [][NextShare]_vars

\* C16 (unsafe instance sharing): with the calls serialized by a lock every
\* call returns the lists of its own traversal; without the lock a call can
\* return the lists another call produced.
C16_SerializedReturnsOwn ==
    external_lock =>
        \A c \in DOMAIN callers :
            callers[c].pc = "returned" =>
                (callers[c].ret_nodes = OwnNodes(c) /\ callers[c].ret_edges = OwnEdges(c))

\* overlapping calls without a lock: one returned the other's lists
C16_Witness ==
    /\ ~external_lock
    /\ \E c, o \in DOMAIN callers :
          /\ c # o
          /\ callers[c].pc = "returned"
          /\ callers[c].seeds /\ callers[o].seeds
          /\ callers[c].ret_nodes = OwnNodes(o)
          /\ callers[c].ret_edges = OwnEdges(o)

=============================================================================
